---------------------------- MODULE Spec2Model ----------------------------
(***************************************************************************)
(* Truss FEM: the calculation core of src/calculation.py                   *)
(* (Calculation.return_solution / start_calc / assembly_system_matrix,     *)
(* Element.calculate_element_matrices and sigma) as a state machine.       *)
(*                                                                         *)
(* Numbers.  The program computes in IEEE doubles.  The model computes in  *)
(* exact rationals extended with +inf, -inf and NaN: a number is a record  *)
(* [n, d] in lowest terms with d > 0, or d = 0 with n = 1 (+inf),          *)
(* n = -1 (-inf), n = 0 (NaN).  Division by zero therefore yields inf or   *)
(* NaN as numpy does (a RuntimeWarning, no exception); round-off and       *)
(* signed zero are not modelled.  The coordinates are taken from a grid on *)
(* which every element length is an integer, so np.sqrt is exact.          *)
(*                                                                         *)
(* Python's None is the empty sequence <<>>, a value v that may be None    *)
(* is <<v>>.  Column vectors (shape (n,1)) and matrices are functions over *)
(* 0..n-1, as the code indexes them by DOF number.                         *)
(***************************************************************************)
EXTENDS Integers, Sequences, FiniteSets, TLC

-----------------------------------------------------------------------------
(* Extended rational arithmetic (the float operations of numpy).           *)

Abs(x) == IF x < 0 THEN -x ELSE x

Sgn(x) == IF x > 0 THEN 1 ELSE IF x < 0 THEN -1 ELSE 0

RECURSIVE GCD(_, _)
GCD(a, b) == IF b = 0 THEN a ELSE GCD(b, a % b)

\* n/d in lowest terms, d made non-negative; d = 0 gives inf / NaN
Norm(n, d) ==
    IF d = 0 THEN [n |-> Sgn(n), d |-> 0]
    ELSE LET g == GCD(Abs(n), Abs(d))
         IN  [n |-> (Sgn(d) * n) \div g, d |-> Abs(d) \div g]

R(n, d) == Norm(n, d)

Zero == [n |-> 0, d |-> 1]
One == [n |-> 1, d |-> 1]
NaN == [n |-> 0, d |-> 0]

IsNaN(a) == a.d = 0 /\ a.n = 0
IsInf(a) == a.d = 0 /\ a.n # 0
IsFinite(a) == a.d # 0

RNeg(a) == [n |-> -a.n, d |-> a.d]

RAdd(a, b) ==
    IF IsNaN(a) \/ IsNaN(b) THEN NaN
    ELSE IF IsInf(a) /\ IsInf(b) THEN (IF a.n = b.n THEN a ELSE NaN)
    ELSE IF IsInf(a) THEN a
    ELSE IF IsInf(b) THEN b
    ELSE LET g == GCD(a.d, b.d)
         IN  Norm(a.n * (b.d \div g) + b.n * (a.d \div g), (a.d \div g) * b.d)

RSub(a, b) == RAdd(a, RNeg(b))

\* p/q * r/s with the common factors of p, s and of r, q removed first
Times(p, q, r, s) ==
    LET g1 == IF p = 0 \/ s = 0 THEN 1 ELSE GCD(Abs(p), Abs(s))
        g2 == IF r = 0 \/ q = 0 THEN 1 ELSE GCD(Abs(r), Abs(q))
    IN  Norm((p \div g1) * (r \div g2), (q \div g2) * (s \div g1))

RMul(a, b) == Times(a.n, a.d, b.n, b.d)

RDiv(a, b) == Times(a.n, a.d, b.d * (IF b.n < 0 THEN -1 ELSE 1), Abs(b.n))

RAbs(a) == [n |-> Abs(a.n), d |-> a.d]

\* comparisons are false as soon as one side is NaN
RLe(a, b) ==
    /\ ~IsNaN(a) /\ ~IsNaN(b)
    /\ IF IsInf(a) /\ IsInf(b) THEN a.n <= b.n ELSE RSub(a, b).n <= 0

RLt(a, b) ==
    /\ ~IsNaN(a) /\ ~IsNaN(b)
    /\ IF IsInf(a) /\ IsInf(b) THEN a.n < b.n ELSE RSub(a, b).n < 0

RGt(a, b) == RLt(b, a)

REq(a, b) == ~IsNaN(a) /\ ~IsNaN(b) /\ a = b

\* np.sign: -1, 0, +1, NaN for NaN
RSign(a) == IF IsNaN(a) THEN NaN ELSE [n |-> Sgn(a.n), d |-> 1]

\* floor of p/q for q > 0
FloorDiv(p, q) == IF p >= 0 THEN p \div q ELSE -((-p + q - 1) \div q)

\* np.rint: round half to even
Rint(a) ==
    LET fl == FloorDiv(a.n, a.d)
        twice == 2 * (a.n - fl * a.d)
    IN  IF twice < a.d THEN fl
        ELSE IF twice > a.d THEN fl + 1
        ELSE IF fl % 2 = 0 THEN fl ELSE fl + 1

\* np.round(x, 2): rint(x * 100) / 100; inf and NaN are kept
Round2(a) == IF a.d = 0 THEN a ELSE Norm(Rint(Norm(a.n * 100, a.d)), 100)

\* np.sqrt on the squares the grid produces (exact), sqrt(0) = 0
ISqrt(s) == CHOOSE r \in 0..s : r * r = s

-----------------------------------------------------------------------------
(* Vectors and matrices (numpy arrays indexed from 0).                     *)

Dim(v) == Cardinality(DOMAIN v)

\* a numpy array holds computed numbers: the entries of a vector (Array) or
\* of a matrix (Array2) are evaluated once, when the array is built
Array(v) == v @@ <<>>

Array2(m) == [i \in DOMAIN m |-> m[i] @@ <<>>] @@ <<>>

ZeroVec(n) == [i \in 0..(n - 1) |-> Zero]

RECURSIVE SumTo(_, _)
\* t[0] + ... + t[k - 1], added left to right
SumTo(t, k) == IF k = 0 THEN Zero ELSE RAdd(SumTo(t, k - 1), t[k - 1])

\* a @ b for square matrices of size n
MatMul(a, b, n) ==
    Array2([i \in 0..(n - 1) |-> [j \in 0..(n - 1) |->
        SumTo([k \in 0..(n - 1) |-> RMul(a[i][k], b[k][j])], n)]])

\* a @ v for a square matrix and a column vector
MatVec(a, v, n) ==
    Array([i \in 0..(n - 1) |-> SumTo([k \in 0..(n - 1) |-> RMul(a[i][k], v[k])], n)])

\* np.transpose
Transpose(a, n) == Array2([i \in 0..(n - 1) |-> [j \in 0..(n - 1) |-> a[j][i]]])

VecSub(a, b) == Array([i \in DOMAIN a |-> RSub(a[i], b[i])])

VecAdd(a, b) == Array([i \in DOMAIN a |-> RAdd(a[i], b[i])])

AllFinite(m, v) ==
    /\ \A i \in DOMAIN m : \A j \in DOMAIN m[i] : IsFinite(m[i][j])
    /\ \A i \in DOMAIN v : IsFinite(v[i])

\* Gauss-Jordan elimination of the augmented system m (n rows, columns
\* 0..n, column n the right-hand side), from column k on.  A column with no
\* non-zero pivot at or below the diagonal is LAPACK's info > 0, which
\* np.linalg.solve turns into LinAlgError("Singular matrix").
RECURSIVE Eliminate(_, _, _)
Eliminate(m, k, n) ==
    IF k = n THEN [ok |-> TRUE, x |-> [i \in 0..(n - 1) |-> m[i][n]]]
    ELSE LET cand == {r \in k..(n - 1) : m[r][k] # Zero}
         IN  IF cand = {} THEN [ok |-> FALSE, x |-> <<>>]
             ELSE LET p == CHOOSE r \in cand : \A q \in cand : r <= q
                      piv == m[p][k]
                      prow == Array([j \in 0..n |-> RDiv(m[p][j], piv)])
                      swapped == [r \in 0..(n - 1) |->
                                     IF r = k THEN prow
                                     ELSE IF r = p THEN m[k] ELSE m[r]]
                      next == [r \in 0..(n - 1) |->
                                 IF r = k THEN prow
                                 ELSE LET fac == swapped[r][k]
                                      IN  IF fac = Zero THEN swapped[r]
                                          ELSE [j \in 0..n |->
                                                   RSub(swapped[r][j], RMul(fac, prow[j]))]]
                  IN  Eliminate(Array2(next), k + 1, n)

\* np.linalg.solve(k, f) on finite input: the solution or the failure
LinalgSolve(k, f) ==
    LET n == Dim(f)
    IN  Eliminate(Array2([i \in 0..(n - 1) |->
                             [j \in 0..n |-> IF j = n THEN f[i] ELSE k[i][j]]]), 0, n)

-----------------------------------------------------------------------------
(* Material law and element stiffness.                                     *)

\* the stress law without the sign of the strain on the quadratic term
sigma_unsigned(eps, lin_coeff, quad_coeff, e_mod, eps_f) ==
    IF RLe(RAbs(eps), eps_f) \/ REq(quad_coeff, Zero)
    THEN RMul(RSub(RMul(lin_coeff, eps), RMul(quad_coeff, RMul(eps, eps))), e_mod)
    ELSE IF RGt(quad_coeff, Zero)
         THEN RMul(RSub(RMul(lin_coeff, eps_f), RMul(quad_coeff, RMul(eps_f, eps_f))), e_mod)
         ELSE Zero

\* sigma(eps, lin_coeff, quad_coeff, e_mod, eps_f) for one element
\* (np.select takes the first condition that holds, default 0)
sigma(eps, lin_coeff, quad_coeff, e_mod, eps_f) ==
    LET sign_eps == IF REq(eps, Zero) THEN One ELSE RSign(eps)
        cond1 == RLe(RAbs(eps), eps_f) \/ REq(quad_coeff, Zero)
        cond2 == RGt(RAbs(eps), eps_f) /\ RGt(quad_coeff, Zero)
        choice1 == RMul(RSub(RMul(lin_coeff, eps),
                             RMul(RMul(sign_eps, quad_coeff), RMul(eps, eps))), e_mod)
        choice2 == RMul(RSub(RMul(lin_coeff, eps_f),
                             RMul(RMul(sign_eps, quad_coeff), RMul(eps_f, eps_f))), e_mod)
    IN  IF cond1 THEN choice1 ELSE IF cond2 THEN choice2 ELSE Zero

\* the constant pattern of the local stiffness matrix
AxialPattern ==
    << <<1, 0, -1, 0>>, <<0, 0, 0, 0>>, <<-1, 0, 1, 0>>, <<0, 0, 0, 0>> >>

\* Element(node_i, node_j, area, modulus).calculate_element_matrices():
\* no check of the length; a zero length divides by zero (inf, NaN)
calculate_element_matrices(node_i, node_j, cross_section_area, youngs_modulus) ==
    LET delta_x == node_j[1] - node_i[1]
        delta_y == node_j[2] - node_i[2]
        length == R(ISqrt(delta_x * delta_x + delta_y * delta_y), 1)
        cos_theta == RDiv(R(delta_x, 1), length)
        sin_theta == RDiv(R(-delta_y, 1), length)
        stiff == RDiv(RMul(cross_section_area, youngs_modulus), length)
        k_local == Array2([i \in 0..3 |-> [j \in 0..3 |->
                       RMul(stiff, R(AxialPattern[i + 1][j + 1], 1))]])
        t == Array2([i \in 0..3 |-> [j \in 0..3 |->
                 IF i \div 2 # j \div 2 THEN Zero
                 ELSE IF i = j THEN cos_theta
                 ELSE IF i % 2 = 0 THEN sin_theta ELSE RNeg(sin_theta)]])
        k_global == MatMul(MatMul(t, k_local, 4), Transpose(t, 4), 4)
    IN  [K_local |-> k_local, K_global |-> k_global,
         transformation_matrix |-> t, length |-> length]

-----------------------------------------------------------------------------
(* Topology: node list and node -> index map.                              *)

\* a node list that takes both end nodes of every element, known or not
NodeListAll(els, k) ==
    [q \in 1..(2 * k) |-> IF q % 2 = 1 THEN els[(q + 1) \div 2].ele_node_i
                          ELSE els[q \div 2].ele_node_j]

RECURSIVE NodeList(_, _)
\* the node list after the first k elements (first-seen order)
NodeList(els, k) ==
    IF k = 0 THEN <<>>
    ELSE LET prev == NodeList(els, k - 1)
             e == els[k]
             with_i == IF \E q \in 1..Len(prev) : prev[q] = e.ele_node_i
                       THEN prev ELSE Append(prev, e.ele_node_i)
         IN  IF \E q \in 1..Len(with_i) : with_i[q] = e.ele_node_j
             THEN with_i ELSE Append(with_i, e.ele_node_j)

\* self.node_to_index[node]; -1 stands for the KeyError of a missing node
NodeToIndex(nds, node) ==
    IF \E q \in 1..Len(nds) : nds[q] = node
    THEN (CHOOSE q \in 1..Len(nds) : nds[q] = node) - 1
    ELSE -1

\* the DOF quadruple of an element
ElementDOFs(nds, e) ==
    LET i == NodeToIndex(nds, e.ele_node_i)
        j == NodeToIndex(nds, e.ele_node_j)
    IN  [q \in 0..3 |-> IF q = 0 THEN i * 2 ELSE IF q = 1 THEN i * 2 + 1
                        ELSE IF q = 2 THEN j * 2 ELSE j * 2 + 1]

-----------------------------------------------------------------------------
(* Global assembly.                                                        *)

\* what element matrix em adds to K[r, c]: the entries of its K_global whose
\* DOF pair is (r, c) (csr_array sums duplicate entries)
ElementEntry(em, r, c) ==
    SumTo([q \in 0..15 |->
              IF em.DOFs[q \div 4] = r /\ em.DOFs[q % 4] = c
              THEN em.K_global[q \div 4][q % 4] ELSE Zero], 16)

\* num_dofs + 1: the largest DOF number of any element, plus one
SystemSize(ems) ==
    LET all == {ems[i].DOFs[q] : i \in 1..Len(ems), q \in 0..3} \cup {0}
    IN  (CHOOSE m \in all : \A x \in all : x <= m) + 1

\* the scatter-add of all element matrices (before the supports)
ScatterAdd(ems) ==
    LET n == SystemSize(ems)
    IN  Array2([r \in 0..(n - 1) |-> [c \in 0..(n - 1) |->
            SumTo([i \in 0..(Len(ems) - 1) |-> ElementEntry(ems[i + 1], r, c)], Len(ems))]])

\* k_sys[d, :] = 0; k_sys[:, d] = 0; k_sys[d, d] = 1
RigidDOF(k, d) ==
    Array2([r \in DOMAIN k |-> [c \in DOMAIN k |->
        IF r = d /\ c = d THEN One
        ELSE IF r = d \/ c = d THEN Zero ELSE k[r][c]]])

\* k_sys[d, d] += c
SpringDOF(k, d, c) ==
    Array2([r \in DOMAIN k |-> [cc \in DOMAIN k |->
        IF r = d /\ cc = d THEN RAdd(k[r][cc], c) ELSE k[r][cc]]])

\* a branch on the stiffness value that takes every c but a spring as rigid
ApplyAxisHeld(ks, d, c) ==
    IF RGt(c, One)
    THEN [k |-> SpringDOF(ks.k, d, c),
          spring |-> [ks.spring EXCEPT ![d] = c]]
    ELSE [k |-> RigidDOF(ks.k, d), spring |-> ks.spring]

\* one axis of one support: the branch on the stiffness value c
ApplyAxis(ks, d, c) ==
    IF RGt(c, One)
    THEN [k |-> SpringDOF(ks.k, d, c),
          spring |-> [ks.spring EXCEPT ![d] = c]]
    ELSE IF REq(c, One)
    THEN [k |-> RigidDOF(ks.k, d), spring |-> ks.spring]
    ELSE ks

RECURSIVE ApplySupports(_, _, _, _)
\* the loop over the supports from position i on; a support whose node is
\* in no element (KeyError) ends the loop with "break"
ApplySupports(ks, sups, nds, i) ==
    IF i > Len(sups) THEN ks
    ELSE LET index_nodes == NodeToIndex(nds, sups[i].sup_node)
         IN  IF index_nodes = -1 THEN ks
             ELSE ApplySupports(
                      ApplyAxis(ApplyAxis(ks, index_nodes * 2, sups[i].c_x),
                                index_nodes * 2 + 1, sups[i].c_y),
                      sups, nds, i + 1)

\* assembly_system_matrix(): the system matrix and self.spring_index
assembly_system_matrix(ems, sups, nds) ==
    LET k0 == ScatterAdd(ems)
    IN  ApplySupports([k |-> k0, spring |-> ZeroVec(SystemSize(ems))], sups, nds, 1)

RECURSIVE AddForces(_, _, _, _)
\* the loop over the forces from position i on; an unconnected force
\* (KeyError) breaks the loop
AddForces(f, frc, nds, i) ==
    IF i > Len(frc) THEN f
    ELSE LET index_nodes == NodeToIndex(nds, frc[i].force_node)
         IN  IF index_nodes = -1 THEN f
             ELSE AddForces(
                      [f EXCEPT ![index_nodes * 2] = RAdd(@, frc[i].f_x),
                                ![index_nodes * 2 + 1] = RAdd(@, frc[i].f_y)],
                      frc, nds, i + 1)

\* v[np.diag(k) == 1] = 0
ZeroAtUnitDiagonal(v, k) ==
    Array([d \in DOMAIN v |-> IF REq(k[d][d], One) THEN Zero ELSE v[d]])

\* the load vector of start_calc
LoadVector(k, frc, nds) ==
    ZeroAtUnitDiagonal(AddForces(ZeroVec(Dim(k)), frc, nds, 1), k)

-----------------------------------------------------------------------------
(* Helpers of start_calc.                                                  *)

None == <<>>
Some(v) == <<v>>

\* Python's "a in b" for strings, here sequences of characters
\* a containment test that holds in either direction
EitherSubstr(a, b) ==
    \/ \E i \in 0..(Len(b) - Len(a)) : SubSeq(b, i + 1, i + Len(a)) = a
    \/ \E i \in 0..(Len(a) - Len(b)) : SubSeq(a, i + 1, i + Len(b)) = b

IsSubstr(a, b) ==
    \E i \in 0..(Len(b) - Len(a)) : SubSeq(b, i + 1, i + Len(a)) = a

STR_NR == <<"N", "R">>
STR_modNR == <<"m", "o", "d", "N", "R">>
STR_linear == <<"l", "i", "n", "e", "a", "r">>

\* x[dofs] += v on a column vector: x[dofs] = x[dofs] + v, so that of two
\* equal DOF numbers the last one assigned wins
FancyAdd(x, dofs, v) ==
    Array([d \in DOMAIN x |->
        IF \E q \in 0..3 : dofs[q] = d
        THEN LET last == CHOOSE q \in 0..3 :
                             dofs[q] = d /\ \A q2 \in 0..3 : dofs[q2] = d => q2 <= q
             IN  RAdd(x[d], v[last])
        ELSE x[d]])

\* x[dofs] for the DOF quadruple of an element
Gather(x, dofs) == Array([q \in 0..3 |-> x[dofs[q]]])

\* the unit conversions of the element loop
ele_e(els) == [i \in 1..Len(els) |-> RMul(els[i].ele_E, R(1000, 1))]
ele_area(els) == [i \in 1..Len(els) |-> RMul(els[i].ele_A, R(1, 10000))]

\* the position at which the element loop raises IndexError, 0 if none:
\* ele_area[ele_id] indexes the list built so far with the element's id
FirstBadId(els) ==
    LET bad == {k \in 1..Len(els) : els[k].id >= k}
    IN  IF bad = {} THEN 0 ELSE CHOOSE k \in bad : \A q \in bad : k <= q

\* the entry of self.element_matrices for the element at position k
ElementMatrix(els, nds, k) ==
    LET m == calculate_element_matrices(els[k].ele_node_i, els[k].ele_node_j,
                                        ele_area(els)[els[k].id + 1],
                                        ele_e(els)[els[k].id + 1])
    IN  [DOFs |-> ElementDOFs(nds, els[k]), K_local |-> m.K_local,
         K_global |-> m.K_global,
         transformation_matrix |-> m.transformation_matrix,
         length |-> m.length]

\* strain of one element from the global displacement vector u
LocalDisplacement(em, u) ==
    MatVec(Transpose(em.transformation_matrix, 4), Gather(u, em.DOFs), 4)

\* the strain of an element from its local displacements dl
ElementStrain(em, dl) == RDiv(RSub(dl[2], dl[0]), em.length)

\* axial_force_i of the linear stage (a local 4-vector)
LinearAxialForce(em, dl) == MatVec(em.K_local, dl, 4)

RECURSIVE InternalForces(_, _, _, _)
\* internal_f_vec_glob after the first k elements
InternalForces(ems, dls, n, k) ==
    IF k = 0 THEN ZeroVec(n)
    ELSE FancyAdd(InternalForces(ems, dls, n, k - 1), ems[k].DOFs,
                  MatVec(ems[k].transformation_matrix,
                         LinearAxialForce(ems[k], dls[k]), 4))

\* sigma(strain, ...) * ele_area, per element (positions 1..n)
NonlinearAxialForces(els, str) ==
    Array([i \in 1..Len(str) |->
        LET e == IF Len(els) = 1 THEN 1 ELSE i
        IN  RMul(sigma(str[i], els[e].ele_lin_coeff, els[e].ele_quad_coeff,
                       ele_e(els)[e], els[e].ele_eps_f),
                 ele_area(els)[e])])

\* numpy broadcasting of the (m, 1) strain array against the (n, 1) arrays
\* of the material parameters: equal lengths, or one of them of length 1
Broadcastable(els, str) == Len(els) = Len(str) \/ Len(els) = 1 \/ Len(str) = 1

RECURSIVE CorrectedForces(_, _, _, _)
\* f_vec_cor after the first k elements
CorrectedForces(ems, forces_cor, n, k) ==
    IF k = 0 THEN ZeroVec(n)
    ELSE FancyAdd(CorrectedForces(ems, forces_cor, n, k - 1), ems[k].DOFs,
                  MatVec(ems[k].transformation_matrix,
                         [q \in 0..3 |-> IF q = 0 THEN RNeg(forces_cor[k])
                                         ELSE IF q = 2 THEN forces_cor[k] ELSE Zero], 4))

RECURSIVE PyMaxTo(_, _)
\* Python's max() over v[0..k]: a later item replaces the maximum only if
\* "item > maximum" holds (never with NaN on either side)
PyMaxTo(v, k) ==
    IF k = 0 THEN v[0]
    ELSE LET m == PyMaxTo(v, k - 1) IN IF RGt(v[k], m) THEN v[k] ELSE m

\* max(abs(v))
MaxAbs(v) == PyMaxTo(Array([i \in DOMAIN v |-> RAbs(v[i])]), Dim(v) - 1)

\* sum(ele_quad_coeff) != 0
QuadCoeffSumNonzero(els) ==
    ~REq(SumTo([i \in 0..(Len(els) - 1) |-> els[i + 1].ele_quad_coeff], Len(els)), Zero)

\* v.reshape(-1, 2)
Reshape2(v) == [i \in 0..((Dim(v) \div 2) - 1) |-> <<v[2 * i], v[2 * i + 1]>>]

RoundVec(v) == [i \in DOMAIN v |-> Round2(v[i])]

RoundOpt(o) == IF o = None THEN None ELSE Some(RoundVec(o[1]))

\* [force[0] for force in col if force] on an (n, 1) array: the entries
\* that are not 0, in order (NaN is truthy)
RECURSIVE TruthyEntries(_, _)
TruthyEntries(col, k) ==
    IF k = 0 THEN <<>>
    ELSE IF col[k] = Zero THEN TruthyEntries(col, k - 1)
         ELSE Append(TruthyEntries(col, k - 1), col[k])

-----------------------------------------------------------------------------
(* Inputs.                                                                 *)

\* node coordinates: the elements from P0 have length 4 (to P1, horizontal,
\* and to P2, vertical), 5 (to P3, diagonal) or 0
P0 == <<0, 0>>
P1 == <<4, 0>>
P2 == <<0, 4>>
P3 == <<4, 3>>

MaxElements == 2
MaxSupports == 2
MaxForces == 2
MaxIterations == 2

\* end-node pairs: a horizontal bar, a diagonal bar, a zero-length element
Geometries == {<<P0, P1>>, <<P0, P3>>, <<P0, P0>>}

\* beta of the softening material: the stress would peak at strain 1/64
Softening == R(32, 1)

\* an element record without its id: A = 10 cm2, E = 128 MPa (so that
\* E * A = 128 kN), alpha = 1, yield strain 5/512
Bar(g, beta) ==
    [ele_node_i |-> g[1], ele_node_j |-> g[2], ele_A |-> R(10, 1), ele_E |-> R(128, 1),
     ele_lin_coeff |-> One, ele_quad_coeff |-> beta, ele_eps_f |-> R(5, 512)]

\* the element mapping in insertion order, keys '0', '1', ...
WithIds(seq) ==
    [k \in 1..Len(seq) |->
        [id |-> k - 1, ele_node_i |-> seq[k].ele_node_i, ele_node_j |-> seq[k].ele_node_j,
         ele_A |-> seq[k].ele_A, ele_E |-> seq[k].ele_E,
         ele_lin_coeff |-> seq[k].ele_lin_coeff,
         ele_quad_coeff |-> seq[k].ele_quad_coeff, ele_eps_f |-> seq[k].ele_eps_f]]

SeqsUpTo(S, lo, hi) == UNION {[1..n -> S] : n \in lo..hi}

\* every list of different linear-material elements over the geometries
ElementLists ==
    {WithIds(q) : q \in {t \in SeqsUpTo({Bar(g, Zero) : g \in Geometries}, 1, MaxElements) :
                            \A i, j \in 1..Len(t) : t[i] = t[j] => i = j}}

\* the same elements under other keys
Rekeyed(els, keys) == [k \in 1..Len(els) |-> [els[k] EXCEPT !.id = keys[k]]]

Sup(p, cx, cy) == [sup_node |-> p, c_x |-> cx, c_y |-> cy]

\* a spring stiffness (any value > 1)
SpringStiffness == R(32, 1)

\* rigid, roller (free in x), spring in x; P3 belongs to the diagonal bar only
SupportChoices ==
    {Sup(P1, One, One), Sup(P3, Zero, One), Sup(P0, One, One),
     Sup(P0, SpringStiffness, One)}

SupportLists == SeqsUpTo(SupportChoices, 0, MaxSupports)

\* the horizontal bar held at P1, on a spring in x at P0
SpringBar(beta) ==
    [elements |-> WithIds(<<Bar(<<P0, P1>>, beta)>>),
     supports |-> <<Sup(P1, One, One), Sup(P0, SpringStiffness, One)>>]

\* a spring stiffness between 0 and 1
WeakSpringStiffness == R(1, 2)

\* the horizontal bar held at P1, on a weak spring in x at P0
WeakSpringBar(beta) ==
    [elements |-> WithIds(<<Bar(<<P0, P1>>, beta)>>),
     supports |-> <<Sup(P1, One, One), Sup(P0, WeakSpringStiffness, One)>>]

\* structures that are held in place: the horizontal bar on a roller, the
\* two bars meeting at P0 (the vertical bar is a zero-force member under a
\* load in x), each with the linear or the softening material, and the
\* linear bar on a spring
HeldStructures ==
    {[elements |-> WithIds(<<Bar(<<P0, P1>>, b)>>),
      supports |-> <<Sup(P1, One, One), Sup(P0, Zero, One)>>] : b \in {Zero, Softening}}
    \cup
    {[elements |-> WithIds(<<Bar(<<P0, P1>>, b), Bar(<<P0, P2>>, b)>>),
      supports |-> <<Sup(P1, One, One), Sup(P2, One, One)>>] : b \in {Zero, Softening}}
    \cup {SpringBar(Zero)}

Load(p, fx) == [force_node |-> p, f_x |-> fx, f_y |-> Zero]

\* loads in x at P0: on the bar P0 -> P1 held at P1, -1 is tension and 1 is
\* compression at half the strain 1/64 of the softening material, 2 is
\* compression at the strain 1/64, where the tangent modulus vanishes
LoadsAtP0 == {Load(P0, R(-1, 1)), Load(P0, One), Load(P0, R(2, 1))}

ForceLists == SeqsUpTo(LoadsAtP0 \cup {Load(P2, One)}, 0, MaxForces)

Methods == {STR_linear, STR_NR, STR_modNR}

Tolerances == {Zero, R(1, 10), One}

\* tolerances that the softening bar on the spring meets in the first or in
\* the second iteration under the loads -1 and 1
SpringTolerances == {R(1, 32), One}

LinearParam == [calc_method |-> STR_linear, number_of_iterations |-> 1,
                delta_f_max |-> Zero]

CalcParams ==
    {[calc_method |-> m, number_of_iterations |-> n, delta_f_max |-> t] :
        m \in Methods, n \in 0..MaxIterations, t \in Tolerances}

-----------------------------------------------------------------------------
(* State.                                                                  *)

VARIABLES
    elements, supports, forces, calc_param,     \* the input records
    pc,                     \* position in return_solution / start_calc
    raised,                 \* exception that left return_solution, or "none"
    nodes, element_matrices, k_sys, spring_index, f_vec,
    displacements, displacements_local, axial_forces, strain,
    node_equilibrium_linear, displacements_cor, displacements_cor_total, axial_forces_cor,
    f_vec_mismatch, node_equilibrium_nonlinear,
    iter_number, iter_break_number, e_linalg,
    solution                \* the returned dictionary; None is {}

inputs == <<elements, supports, forces>>
linear == <<nodes, element_matrices, k_sys, spring_index, f_vec,
            displacements, axial_forces, node_equilibrium_linear>>
nonlinear == <<strain, displacements_local, displacements_cor, displacements_cor_total, axial_forces_cor,
               f_vec_mismatch, node_equilibrium_nonlinear, iter_number,
               iter_break_number>>
vars == <<inputs, calc_param, pc, raised, linear, nonlinear, e_linalg, solution>>

\* Calculation.__init__
Constructed ==
    /\ pc = "start" /\ raised = "none"
    /\ nodes = <<>> /\ element_matrices = <<>>
    /\ k_sys = <<>> /\ spring_index = <<>> /\ f_vec = <<>>
    /\ displacements = <<>> /\ axial_forces = <<>> /\ strain = <<>>
    /\ displacements_local = <<>>
    /\ node_equilibrium_linear = None
    /\ displacements_cor = <<>> /\ displacements_cor_total = None
    /\ axial_forces_cor = None /\ f_vec_mismatch = None
    /\ node_equilibrium_nonlinear = None
    /\ iter_number = 0 /\ iter_break_number = 0
    /\ e_linalg = None /\ solution = None

\* every list of elements with every list of supports, one load, linear
InitSupportSweep ==
    /\ elements \in ElementLists
    /\ supports \in SupportLists
    /\ forces = <<Load(P0, R(-1, 1))>>
    /\ calc_param = LinearParam

\* the held structures under every list of loads, linear
InitLoadSweep ==
    /\ \E s \in HeldStructures : elements = s.elements /\ supports = s.supports
    /\ forces \in ForceLists
    /\ calc_param = LinearParam

\* the held structures under no load or one load at P0, with every method,
\* iteration limit and tolerance
InitIterationSweep ==
    /\ \E s \in HeldStructures : elements = s.elements /\ supports = s.supports
    /\ forces \in {<<>>} \cup {<<f>> : f \in LoadsAtP0}
    /\ calc_param \in CalcParams

\* the softening bar on the spring under the loads -1 and 1
InitSpringSweep ==
    /\ elements = SpringBar(Softening).elements
    /\ supports = SpringBar(Softening).supports
    /\ forces \in {<<Load(P0, R(-1, 1))>>, <<Load(P0, One)>>}
    /\ calc_param \in {[calc_method |-> m, number_of_iterations |-> n, delta_f_max |-> t] :
                         m \in Methods, n \in 0..MaxIterations, t \in SpringTolerances}

\* held structures whose element keys are not '0', '1', ... in this order
InitKeySweep ==
    /\ \E s \in HeldStructures : \E keys \in {<<1>>, <<1, 0>>, <<0, 2>>} :
          /\ Len(keys) = Len(s.elements)
          /\ elements = Rekeyed(s.elements, keys)
          /\ supports = s.supports
    /\ forces = <<Load(P0, R(-1, 1))>>
    /\ calc_param \in {LinearParam,
                        [calc_method |-> STR_NR, number_of_iterations |-> 1,
                         delta_f_max |-> Zero]}

\* the bar on the weak spring under the loads -1 and 1, with every method,
\* iteration limit and tolerance
InitWeakSpringSweep ==
    /\ \E b \in {Zero, Softening} :
          elements = WeakSpringBar(b).elements /\ supports = WeakSpringBar(b).supports
    /\ forces \in {<<Load(P0, R(-1, 1))>>, <<Load(P0, One)>>}
    /\ calc_param \in CalcParams

\* loads in x at P0 that the softening bar carries below its yield strain
\* (the linear strain is 1/256)
LoadsBelowYield == {Load(P0, R(-1, 2)), Load(P0, R(1, 2))}

\* tolerances met by the first (1/10) and by the second (1/32) mismatch of
\* the bar under the loads below yield
ConvergenceTolerances == {R(1, 32), R(1, 10)}

\* the softening bar on the roller under a load below yield, Newton-Raphson
InitConvergenceSweep ==
    /\ elements = WithIds(<<Bar(<<P0, P1>>, Softening)>>)
    /\ supports = <<Sup(P1, One, One), Sup(P0, Zero, One)>>
    /\ forces \in {<<f>> : f \in LoadsBelowYield}
    /\ calc_param \in {[calc_method |-> STR_NR, number_of_iterations |-> n,
                        delta_f_max |-> t] :
                          n \in 1..MaxIterations, t \in ConvergenceTolerances}

\* the two bars meeting at P0, one of them softening and the other linear
MixedStructures ==
    {[elements |-> WithIds(<<Bar(<<P0, P1>>, b), Bar(<<P0, P2>>, c)>>),
      supports |-> <<Sup(P1, One, One), Sup(P2, One, One)>>] :
        b \in {Zero, Softening}, c \in {Zero, Softening}}

\* the two bars of mixed material under the loads -1 and 1, with every
\* method, iteration limit and tolerance
\* a spring stiffness that adds up to a power of two with the unit diagonal
\* of a rigid DOF
OverlaidSpringStiffness == R(31, 1)

\* one bar held at both ends, with a spring support laid over the rigid
\* support of its loaded end
OverlaidSupportBar(beta) ==
    [elements |-> WithIds(<<Bar(<<P0, P1>>, beta)>>),
     supports |-> <<Sup(P1, One, One), Sup(P0, One, One),
                    Sup(P0, OverlaidSpringStiffness, One)>>]

InitOverlaidSweep ==
    /\ \E b \in {Zero, Softening} :
          elements = OverlaidSupportBar(b).elements
          /\ supports = OverlaidSupportBar(b).supports
    /\ forces \in {<<Load(P0, R(-1, 1))>>, <<Load(P0, One)>>}
    /\ calc_param \in {p \in CalcParams : p.number_of_iterations <= 1}

\* one bar whose stiffness E * A / L is 1 kN/m (E = 4 N/mm^2, A = 10 cm^2,
\* L = 4 m), free along its axis at the loaded end
UnitStiffnessBar(beta) ==
    [elements |-> WithIds(<<[Bar(<<P0, P1>>, beta) EXCEPT !.ele_E = R(4, 1)]>>),
     supports |-> <<Sup(P1, One, One), Sup(P0, Zero, One)>>]

InitUnitStiffnessSweep ==
    /\ \E b \in {Zero, Softening} :
          elements = UnitStiffnessBar(b).elements
          /\ supports = UnitStiffnessBar(b).supports
    /\ forces \in {<<Load(P0, R(-1, 1))>>, <<Load(P0, One)>>}
    /\ calc_param \in CalcParams

InitMixedSweep ==
    /\ \E s \in MixedStructures :
          /\ s.elements[1].ele_quad_coeff # s.elements[2].ele_quad_coeff
          /\ elements = s.elements /\ supports = s.supports
    /\ forces \in {<<Load(P0, R(-1, 1))>>, <<Load(P0, One)>>}
    /\ calc_param \in CalcParams

Init ==
    /\ \/ InitSupportSweep
       \/ InitOverlaidSweep
       \/ InitUnitStiffnessSweep
       \/ InitMixedSweep
       \/ InitConvergenceSweep
       \/ InitWeakSpringSweep
       \/ InitLoadSweep
       \/ InitIterationSweep
       \/ InitSpringSweep
       \/ InitKeySweep
    /\ Constructed

-----------------------------------------------------------------------------
(* start_calc, stage by stage.                                             *)

\* an exception leaves return_solution: nothing is returned
Raise(name) == pc' = "raised" /\ raised' = name

\* node list, node -> index map, element matrices
ElementStage ==
    /\ pc = "start"
    /\ LET seen == NodeList(elements, Len(elements))
           nds == nodes \o SelectSeq(seen, LAMBDA p : NodeToIndex(nodes, p) = -1)
           bad == FirstBadId(elements)
           upto == IF bad = 0 THEN Len(elements) ELSE bad - 1
       IN  /\ nodes' = nds
           /\ element_matrices' =
                  element_matrices \o [k \in 1..upto |-> ElementMatrix(elements, nds, k)]
           /\ IF bad = 0 THEN pc' = "assemble" /\ UNCHANGED raised
              ELSE Raise("IndexError")
    /\ UNCHANGED <<inputs, calc_param, k_sys, spring_index, f_vec, displacements,
                   axial_forces, node_equilibrium_linear, nonlinear, e_linalg, solution>>

\* system matrix with the supports applied, load vector
AssembleStage ==
    /\ pc = "assemble"
    /\ LET ks == assembly_system_matrix(element_matrices, supports, nodes)
       IN  /\ k_sys' = ks.k
           /\ spring_index' = ks.spring
           /\ f_vec' = LoadVector(ks.k, forces, nodes)
    /\ pc' = "solve"
    /\ UNCHANGED <<inputs, calc_param, raised, nodes, element_matrices, displacements,
                   axial_forces, node_equilibrium_linear, nonlinear, e_linalg, solution>>

\* the outcomes of np.linalg.solve(k, f).  On finite input the exact
\* solution or LinAlgError (singular).  With inf or NaN in the input LAPACK
\* pivots on whatever the comparisons with NaN leave it: the outcome is
\* either LinAlgError or a vector of NaN, depending on the build.
SolveOutcomes(k, f) ==
    IF AllFinite(k, f) THEN {LinalgSolve(k, f)}
    ELSE {[ok |-> FALSE, x |-> <<>>], [ok |-> TRUE, x |-> [i \in DOMAIN f |-> NaN]]}

\* the linear solve, inside try/except: a failure is stored in e_linalg and
\* start_calc returns, so return_solution returns self.solution as it is
LinearSolve ==
    /\ pc = "solve"
    /\ \E res \in SolveOutcomes(k_sys, f_vec) :
          IF res.ok
          THEN /\ displacements' = res.x
               /\ pc' = "forces"
               /\ UNCHANGED e_linalg
          ELSE /\ e_linalg' = Some("LinAlgError")
               /\ pc' = "done"
               /\ UNCHANGED displacements
    /\ UNCHANGED <<inputs, calc_param, raised, nodes, element_matrices, k_sys, spring_index,
                   f_vec, axial_forces, node_equilibrium_linear, nonlinear, solution>>

\* linear axial forces, strains and node equilibrium
LinearForces ==
    /\ pc = "forces"
    /\ LET dls == displacements_local \o
                     [i \in 1..Len(element_matrices) |->
                         LocalDisplacement(element_matrices[i], displacements)]
       IN  /\ displacements_local' = dls
           /\ axial_forces' = axial_forces \o
                  [i \in 1..Len(element_matrices) |->
                      LinearAxialForce(element_matrices[i], dls[i])[2]]
           /\ strain' = [i \in 1..Len(element_matrices) |->
                            ElementStrain(element_matrices[i], dls[i])]
           /\ node_equilibrium_linear' =
                  Some(VecSub(f_vec, InternalForces(element_matrices, dls, Dim(f_vec),
                                                    Len(element_matrices))))
    /\ displacements_cor' = ZeroVec(Dim(k_sys))
    /\ pc' = "branch"
    /\ UNCHANGED <<inputs, calc_param, raised, nodes, element_matrices, k_sys, spring_index,
                   f_vec, displacements, displacements_cor_total, axial_forces_cor,
                   f_vec_mismatch, node_equilibrium_nonlinear, iter_number,
                   iter_break_number, e_linalg, solution>>

\* a loop condition that knows the full Newton-Raphson method only
EntersLoopFullOnly ==
    /\ IsSubstr(calc_param.calc_method, STR_NR)
    /\ QuadCoeffSumNonzero(elements)

\* the condition of the first "if": the loop is entered
EntersLoop ==
    /\ IsSubstr(calc_param.calc_method, STR_NR) \/ IsSubstr(calc_param.calc_method, STR_modNR)
    /\ QuadCoeffSumNonzero(elements)

\* the condition of the first "elif" ("and" binds tighter than "or")
NonlinearAllBetaZero ==
    \/ IsSubstr(STR_NR, calc_param.calc_method)
    \/ (IsSubstr(STR_modNR, calc_param.calc_method) /\ ~QuadCoeffSumNonzero(elements))

\* the if / elif / elif on the method
MethodBranch ==
    /\ pc = "branch"
    /\ IF EntersLoop
       THEN /\ displacements_cor_total' = Some(displacements)
            /\ calc_param' = IF calc_param.number_of_iterations < 1
                             THEN [calc_param EXCEPT !.number_of_iterations = 1]
                             ELSE calc_param
            /\ iter_number' = 1
            /\ pc' = "iterate"
            /\ UNCHANGED axial_forces_cor
       ELSE /\ axial_forces_cor' = IF NonlinearAllBetaZero
                                   THEN Some([ndim |-> 1, v |-> axial_forces])
                                   ELSE axial_forces_cor
            /\ pc' = "finalize"
            /\ UNCHANGED <<displacements_cor_total, calc_param, iter_number>>
    /\ UNCHANGED <<inputs, raised, linear, strain, displacements_local,
                   displacements_cor, f_vec_mismatch,
                   node_equilibrium_nonlinear, iter_break_number, e_linalg, solution>>

\* self.elements[str(i)]: the position of the element with key i, 0 for
\* the KeyError of a missing key
PositionOfId(els, i) ==
    IF \E k \in 1..Len(els) : els[k].id = i
    THEN CHOOSE k \in 1..Len(els) : els[k].id = i
    ELSE 0

\* the tangent modulus of the element at position k: (alpha + 2 beta eps) E
\* the secant modulus of the stress law in compression
SecantModulus(els, str, k) ==
    RMul(RAdd(els[k].ele_lin_coeff, RMul(els[k].ele_quad_coeff, str[k])),
         ele_e(els)[k])

TangentModulus(els, str, k) ==
    RMul(RAdd(els[k].ele_lin_coeff,
              RMul(RMul(R(2, 1), els[k].ele_quad_coeff), str[k])),
         ele_e(els)[k])

\* element_matrices after the NewtonRaphson rebuild: K_global of entry
\* i + 1 is recomputed from the end nodes of self.elements[str(i)], the area
\* and the tangent modulus at position i + 1
RebuiltMatrices(ems, els, str) ==
    Array([k \in 1..Len(ems) |->
        LET src == els[PositionOfId(els, k - 1)]
        IN  [ems[k] EXCEPT !.K_global =
                calculate_element_matrices(src.ele_node_i, src.ele_node_j,
                                           ele_area(els)[k],
                                           TangentModulus(els, str, k)).K_global]])

\* one pass of the loop body up to the stop criterion
IterationMismatch ==
    /\ pc = "iterate"
    /\ LET n == Dim(f_vec)
           forces_cor == NonlinearAxialForces(elements, strain)
           f_vec_cor == CorrectedForces(element_matrices, forces_cor, n,
                                        Len(element_matrices))
           total == displacements_cor_total[1]
           spring_reactions_forces ==
               Array([d \in 0..(n - 1) |-> RMul(spring_index[d], total[d])])
           node_equilibrium == VecSub(f_vec, f_vec_cor)
           mismatch == VecSub(node_equilibrium, spring_reactions_forces)
           is_nr == IsSubstr(calc_param.calc_method, STR_NR)
           missing == is_nr /\ \E i \in 0..(Len(element_matrices) - 1) :
                                   PositionOfId(elements, i) = 0
       IN  IF ~Broadcastable(elements, strain)
           THEN /\ Raise("ValueError")
                /\ UNCHANGED <<element_matrices, k_sys, spring_index, f_vec_mismatch,
                               iter_break_number, node_equilibrium_nonlinear>>
           ELSE IF missing
           THEN /\ Raise("KeyError")
                /\ f_vec_mismatch' = Some(mismatch)
                /\ UNCHANGED <<element_matrices, k_sys, spring_index, iter_break_number,
                               node_equilibrium_nonlinear>>
           ELSE LET ems == IF is_nr
                           THEN RebuiltMatrices(element_matrices, elements, strain)
                           ELSE element_matrices
                    ks == IF is_nr
                          THEN assembly_system_matrix(ems, supports, nodes)
                          ELSE [k |-> k_sys, spring |-> spring_index]
                    reduced == ZeroAtUnitDiagonal(mismatch, ks.k)
                IN  /\ element_matrices' = ems
                    /\ k_sys' = ks.k
                    /\ spring_index' = ks.spring
                    /\ f_vec_mismatch' = Some(reduced)
                    /\ UNCHANGED raised
                    /\ IF RLe(MaxAbs(reduced), calc_param.delta_f_max)
                       THEN /\ iter_break_number' = iter_number
                            /\ node_equilibrium_nonlinear' = Some(node_equilibrium)
                            /\ pc' = "finalize"
                       ELSE /\ pc' = "update"
                            /\ UNCHANGED <<iter_break_number, node_equilibrium_nonlinear>>
    /\ UNCHANGED <<inputs, calc_param, nodes, f_vec, displacements, axial_forces,
                   node_equilibrium_linear, strain, displacements_local, displacements_cor,
                   displacements_cor_total, axial_forces_cor, iter_number, e_linalg,
                   solution>>

\* the rest of the loop body: the incremental solve (not inside any try),
\* the new total displacement, strains and nonlinear axial forces
IterationUpdate ==
    /\ pc = "update"
    /\ \E res \in SolveOutcomes(k_sys, f_vec_mismatch[1]) :
          IF ~res.ok
          THEN /\ Raise("LinAlgError")
               /\ UNCHANGED <<displacements_cor, displacements_cor_total, strain,
                              displacements_local, axial_forces_cor, iter_break_number,
                              iter_number>>
          ELSE LET cor == VecAdd(displacements_cor, res.x)
                   total == VecAdd(displacements, cor)
                   dls == [i \in 1..Len(displacements_local) |->
                              IF i <= Len(element_matrices)
                              THEN LocalDisplacement(element_matrices[i], total)
                              ELSE displacements_local[i]]
                   str == [i \in 1..Len(element_matrices) |->
                              ElementStrain(element_matrices[i], dls[i])]
               IN  /\ displacements_cor' = cor
                   /\ displacements_local' = dls
                   /\ displacements_cor_total' = Some(total)
                   /\ strain' = str
                   /\ axial_forces_cor' =
                          Some([ndim |-> 2, v |-> NonlinearAxialForces(elements, str)])
                   /\ UNCHANGED raised
                   /\ IF iter_number = calc_param.number_of_iterations
                      THEN /\ iter_break_number' = calc_param.number_of_iterations
                           /\ pc' = "finalize"
                           /\ UNCHANGED iter_number
                      ELSE /\ iter_number' = iter_number + 1
                           /\ pc' = "iterate"
                           /\ UNCHANGED iter_break_number
    /\ UNCHANGED <<inputs, calc_param, linear, f_vec_mismatch, node_equilibrium_nonlinear,
                   e_linalg, solution>>

\* the exception of the statements after the if / elif chain, "none" if
\* they run through:
\*   [force[0] for force in self.axial_forces_cor if force]
\*   self.displacements_cor_total.reshape(-1, 2)
FinalizeError ==
    IF axial_forces_cor = None THEN "TypeError"
    ELSE IF /\ axial_forces_cor[1].ndim = 1
            /\ \E i \in DOMAIN axial_forces_cor[1].v : axial_forces_cor[1].v[i] # Zero
    THEN "IndexError"
    ELSE IF displacements_cor_total = None THEN "AttributeError"
    ELSE "none"

\* flatten, reshape, round, build the Solution dictionary
Finalize ==
    /\ pc = "finalize"
    /\ IF FinalizeError # "none"
       THEN /\ Raise(FinalizeError)
            /\ UNCHANGED <<axial_forces, axial_forces_cor, displacements_cor_total,
                           f_vec_mismatch, node_equilibrium_linear,
                           node_equilibrium_nonlinear, solution>>
       ELSE LET col == axial_forces_cor[1].v
                flat == IF axial_forces_cor[1].ndim = 1 THEN <<>>
                        ELSE TruthyEntries(col, Len(col))
                rounded == [i \in 1..Len(flat) |-> Round2(flat[i])]
                reshaped == Reshape2(displacements_cor_total[1])
            IN  /\ axial_forces_cor' = Some([ndim |-> 1, v |-> rounded])
                /\ displacements_cor_total' = Some(reshaped)
                /\ axial_forces' = RoundVec(axial_forces)
                /\ f_vec_mismatch' = RoundOpt(f_vec_mismatch)
                /\ node_equilibrium_linear' = RoundOpt(node_equilibrium_linear)
                /\ node_equilibrium_nonlinear' = RoundOpt(node_equilibrium_nonlinear)
                /\ solution' = Some(
                       [nodes |-> nodes,
                        node_displacements_linear |-> Reshape2(displacements),
                        node_displacements_nonlinear |-> reshaped,
                        axial_forces_linear |-> RoundVec(axial_forces),
                        axial_forces_nonlinear |-> rounded,
                        node_equilibrium_linear |-> RoundOpt(node_equilibrium_linear),
                        node_equilibrium_nonlinear |-> RoundOpt(node_equilibrium_nonlinear),
                        node_forces_mismatch |-> RoundOpt(f_vec_mismatch),
                        iteration_break_number |-> iter_break_number,
                        error_linalg |-> e_linalg])
                /\ pc' = "done"
                /\ UNCHANGED raised
    /\ UNCHANGED <<inputs, calc_param, nodes, element_matrices, k_sys, spring_index, f_vec,
                   displacements, strain, displacements_local, displacements_cor,
                   iter_number,
                   iter_break_number, e_linalg>>

\* the bound on the calls of return_solution on one Calculation object
MaxInvocations == 2

\* the calls of return_solution that have passed the element loop: each
\* appends one matrix per element to self.element_matrices
Invocations == Len(element_matrices) \div Len(elements)

\* the iteration limit up to which a repeated call is explored
MaxRepeatIterations == 1

\* return_solution is called again on the object after it returned: the
\* attributes keep what the last call left in them.  The repeated call is
\* explored for the structures without spring supports, whose stiffness
\* stays a power of two when the element matrices are held twice, and for
\* iteration limits up to MaxRepeatIterations.
Reinvoke ==
    /\ pc = "done"
    /\ Invocations < MaxInvocations
    /\ \A d \in DOMAIN spring_index : spring_index[d] = Zero
    /\ calc_param.number_of_iterations <= MaxRepeatIterations
    /\ pc' = "start"
    /\ UNCHANGED <<inputs, calc_param, raised, linear, nonlinear, e_linalg, solution>>

Next ==
    \/ Reinvoke
    \/ ElementStage
    \/ AssembleStage
    \/ LinearSolve
    \/ LinearForces
    \/ MethodBranch
    \/ IterationMismatch
    \/ IterationUpdate
    \/ Finalize

Spec == Init /\ [][Next]_vars

\* ---------------------------------------------------------------------------
\* The stress evaluation on its own: one bar, its strain and its material
\* parameters drawn from a grid, and the statement
\*   self.axial_forces_cor = np.array(sigma(strain, ...) * ele_area)
\* ---------------------------------------------------------------------------
\* strains are the multiples of 1/512 up to MaxStrain/512
MaxStrain == 8

StrainGrid == {R(k, 512) : k \in (-MaxStrain)..MaxStrain}

LinCoeffs == {One, R(1, 2)}

QuadCoeffs == {R(-32, 1), Zero, Softening}

YieldStrains == {R(5, 512), R(1, 128)}

MaterialBar(alpha, beta, ef) ==
    [Bar(<<P0, P1>>, beta) EXCEPT !.ele_lin_coeff = alpha, !.ele_eps_f = ef]

SigmaInit ==
    /\ elements \in {WithIds(<<MaterialBar(a, b, ef)>>) :
                        a \in LinCoeffs, b \in QuadCoeffs, ef \in YieldStrains}
    /\ strain \in {<<e>> : e \in StrainGrid}
    /\ supports = <<>> /\ forces = <<>> /\ calc_param = LinearParam
    /\ pc = "sigma" /\ raised = "none"
    /\ nodes = <<>> /\ element_matrices = <<>>
    /\ k_sys = <<>> /\ spring_index = <<>> /\ f_vec = <<>>
    /\ displacements = <<>> /\ axial_forces = <<>> /\ displacements_local = <<>>
    /\ node_equilibrium_linear = None
    /\ displacements_cor = <<>> /\ displacements_cor_total = None
    /\ axial_forces_cor = None /\ f_vec_mismatch = None
    /\ node_equilibrium_nonlinear = None
    /\ iter_number = 0 /\ iter_break_number = 0
    /\ e_linalg = None /\ solution = None

SigmaCall ==
    /\ pc = "sigma"
    /\ axial_forces_cor' = Some([ndim |-> 2, v |-> NonlinearAxialForces(elements, strain)])
    /\ pc' = "sigma_done"
    /\ UNCHANGED <<inputs, calc_param, raised, linear, strain, displacements_local,
                   displacements_cor, displacements_cor_total, f_vec_mismatch, node_equilibrium_nonlinear,
                   iter_number, iter_break_number, e_linalg, solution>>

SigmaNext == SigmaCall

SigmaSpec == SigmaInit /\ [][SigmaNext]_vars

-----------------------------------------------------------------------------
(* Properties.                                                             *)

\* return_solution is over: it returned or an exception left it
Terminated == pc \in {"done", "raised"}

\* the linear stage produced finite displacements
LinearSolved ==
    /\ displacements # <<>>
    /\ \A d \in DOMAIN displacements : IsFinite(displacements[d])

\* the DOFs that the supports of the list tag Rigid (stiffness 1)
RigidTagged(sups, nds) ==
    {2 * NodeToIndex(nds, sups[i].sup_node) :
        i \in {j \in 1..Len(sups) : NodeToIndex(nds, sups[j].sup_node) # -1
                                    /\ sups[j].c_x = One}}
    \cup
    {2 * NodeToIndex(nds, sups[i].sup_node) + 1 :
        i \in {j \in 1..Len(sups) : NodeToIndex(nds, sups[j].sup_node) # -1
                                    /\ sups[j].c_y = One}}

\* the supports of the list whose node belongs to an element, in order
ConnectedSupports(sups, nds) ==
    SelectSeq(sups, LAMBDA sp : NodeToIndex(nds, sp.sup_node) # -1)

\* the nonlinear axial forces at the current strains, rounded as reported
ReportedNonlinearForces ==
    [i \in 1..Len(elements) |-> Round2(NonlinearAxialForces(elements, strain)[i])]

\* C1: after assembly_system_matrix and the load-vector build, for every
\* DOF d that a support tags Rigid, K[d,d] = 1, the rest of row d and of
\* column d is 0, and f_vec[d] = 0.
C1_RigidSupportInvariant ==
    pc = "solve" =>
        \A d \in RigidTagged(supports, nodes) :
            /\ k_sys[d][d] = One
            /\ \A c \in DOMAIN k_sys \ {d} : k_sys[d][c] = Zero /\ k_sys[c][d] = Zero
            /\ f_vec[d] = Zero

\* the list holds an unconnected support, and the system matrix is built
C1_Witness ==
    /\ pc = "solve"
    /\ RigidTagged(supports, nodes) # {}
    /\ Len(ConnectedSupports(supports, nodes)) < Len(supports)

\* C2: when the linear solve of the linear stage fails, return_solution
\* does not raise, runs no further stage and returns a Solution whose
\* error_linalg holds the solver error.
C2_LinearFailureRecorded ==
    (Terminated /\ e_linalg # None) =>
        /\ pc = "done"
        /\ axial_forces = <<>> /\ iter_number = 0
        /\ solution # None
        /\ solution[1].error_linalg = e_linalg

\* the linear solve has failed and return_solution has returned
C2_Witness == pc = "done" /\ e_linalg # None

\* C3: when the solve inside an iteration of the loop fails, the failure is
\* not thrown out of return_solution: the step that leaves the loop body
\* without a new displacement returns a Solution that records the error.
C3_IterationFailureRecorded ==
    [][(pc = "update" /\ pc' \notin {"iterate", "finalize"}) =>
          /\ pc' = "done"
          /\ solution' # None
          /\ solution'[1].error_linalg # None]_vars

\* the incremental solve of an iteration has failed
C3_Witness == pc = "raised" /\ raised = "LinAlgError" /\ iter_number >= 1

\* C4: the stiffness of an element whose endpoints coincide raises
\* DegenerateElement: no matrices are returned for it and the calculation
\* does not continue.
C4_ZeroLengthRaises ==
    pc # "start" =>
        \A k \in 1..Len(elements) :
            elements[k].ele_node_i = elements[k].ele_node_j =>
                /\ pc = "raised" /\ raised = "DegenerateElement"
                /\ Len(element_matrices) < k

\* a zero-length element has its matrices, and they hold NaN
C4_Witness ==
    /\ pc = "assemble"
    /\ \E k \in 1..Len(element_matrices) :
          /\ elements[k].ele_node_i = elements[k].ele_node_j
          /\ IsNaN(element_matrices[k].K_global[0][0])

\* C5: for the Linear method and every solvable input, return_solution
\* returns a Solution without raising, with iteration count 0 and the
\* linear displacements and linear axial forces as the result.
C5_LinearMethodReturns ==
    (Terminated /\ calc_param.calc_method = STR_linear /\ LinearSolved) =>
        /\ pc = "done"
        /\ solution # None
        /\ solution[1].iteration_break_number = 0
        /\ solution[1].node_displacements_linear = Reshape2(displacements)
        /\ solution[1].axial_forces_linear = axial_forces

\* the Linear method has come to its end on a solvable input
C5_Witness == Terminated /\ calc_param.calc_method = STR_linear /\ LinearSolved

\* C6: with the method NewtonRaphson or ModifiedNewtonRaphson and beta = 0
\* in every element, return_solution returns a Solution whose nonlinear
\* axial forces equal the linear axial forces element by element.
C6_AllBetaZeroReduces ==
    (/\ Terminated /\ LinearSolved
     /\ calc_param.calc_method \in {STR_NR, STR_modNR}
     /\ \A k \in 1..Len(elements) : elements[k].ele_quad_coeff = Zero) =>
        /\ pc = "done"
        /\ solution # None
        /\ solution[1].axial_forces_nonlinear = solution[1].axial_forces_linear

\* a nonlinear method has come to its end on elements that all have beta = 0
C6_Witness ==
    /\ Terminated /\ LinearSolved
    /\ calc_param.calc_method \in {STR_NR, STR_modNR}
    /\ \A k \in 1..Len(elements) : elements[k].ele_quad_coeff = Zero

\* C7: when an iteration k >= 1 (the first included) meets the tolerance,
\* return_solution returns a Solution with iteration_break_number = k, the
\* displacement of the last update, and node_equilibrium_nonlinear = load
\* minus internal force, before the spring reactions are subtracted
\* (as reported: rounded to two decimals).
C7_ConvergedReturns ==
    (Terminated /\ node_equilibrium_nonlinear # None) =>
        /\ pc = "done"
        /\ solution # None
        /\ solution[1].iteration_break_number = iter_number
        /\ solution[1].node_displacements_nonlinear =
               Reshape2(VecAdd(displacements, displacements_cor))
        /\ solution[1].node_equilibrium_nonlinear =
               Some(RoundVec(VecSub(f_vec,
                   CorrectedForces(element_matrices,
                                   NonlinearAxialForces(elements, strain),
                                   Dim(f_vec), Len(element_matrices)))))

\* the first iteration has met the tolerance
C7_Witness == Terminated /\ node_equilibrium_nonlinear # None /\ iter_number = 1

\* C8: when no iteration 1..max_iterations meets the tolerance,
\* return_solution does not raise and returns a Solution with
\* iteration_break_number = max_iterations, the displacement after the last
\* update and the nonlinear axial forces at that displacement (as reported:
\* rounded to two decimals).
C8_MaxIterationsReturns ==
    (/\ Terminated /\ iter_number >= 1
     /\ iter_number = calc_param.number_of_iterations
     /\ node_equilibrium_nonlinear = None) =>
        /\ pc = "done"
        /\ solution # None
        /\ solution[1].iteration_break_number = calc_param.number_of_iterations
        /\ solution[1].node_displacements_nonlinear =
               Reshape2(VecAdd(displacements, displacements_cor))
        /\ solution[1].axial_forces_nonlinear = ReportedNonlinearForces

\* the last iteration has gone by without meeting the tolerance
C8_Witness ==
    /\ Terminated /\ iter_number >= 1
    /\ iter_number = calc_param.number_of_iterations
    /\ node_equilibrium_nonlinear = None

\* C9: the nonlinear axial-force vector of the Solution of a nonlinear run
\* has exactly one entry per element, in element order, zero-force members
\* included.
C9_OneForcePerElement ==
    (pc = "done" /\ solution # None /\ iter_number >= 1) =>
        /\ Len(solution[1].axial_forces_nonlinear) = Len(elements)
        /\ solution[1].axial_forces_nonlinear = ReportedNonlinearForces

\* a nonlinear run has returned a Solution for a structure in which an
\* element carries no force
C9_Witness ==
    /\ pc = "done" /\ solution # None /\ iter_number >= 1
    /\ \E k \in 1..Len(elements) : NonlinearAxialForces(elements, strain)[k] = Zero

\* C10: a support whose node belongs to no element is skipped and the
\* assembly continues: the system matrix and the spring vector are those of
\* the list with the unconnected supports left out.
C10_UnconnectedSupportSkipped ==
    pc = "solve" =>
        LET ks == assembly_system_matrix(element_matrices,
                                         ConnectedSupports(supports, nodes), nodes)
        IN  k_sys = ks.k /\ spring_index = ks.spring

\* an unconnected support stands before a connected one
C10_Witness ==
    /\ pc = "solve"
    /\ \E i \in 1..Len(supports) : \E j \in (i + 1)..Len(supports) :
          /\ NodeToIndex(nodes, supports[i].sup_node) = -1
          /\ NodeToIndex(nodes, supports[j].sup_node) # -1

\* the loads of the list whose node belongs to an element, in order
ConnectedForces(frc, nds) ==
    SelectSeq(frc, LAMBDA fo : NodeToIndex(nds, fo.force_node) # -1)

\* C11: a load whose node belongs to no element is skipped and the other
\* loads of the list, also those after it, are still added: the load vector
\* is that of the list with the unconnected loads left out.
C11_UnconnectedLoadSkipped ==
    pc = "solve" => f_vec = LoadVector(k_sys, ConnectedForces(forces, nodes), nodes)

\* an unconnected load stands before a connected one
C11_Witness ==
    /\ pc = "solve"
    /\ \E i \in 1..Len(forces) : \E j \in (i + 1)..Len(forces) :
          /\ NodeToIndex(nodes, forces[i].force_node) = -1
          /\ NodeToIndex(nodes, forces[j].force_node) # -1

\* the stress the evaluated bar carries: its axial force over its area
SigmaReturned == RDiv(axial_forces_cor[1].v[1], ele_area(elements)[1])

\* sign(eps) with sign(0) = +1
SignOf(eps) == IF RLt(eps, Zero) THEN R(-1, 1) ELSE One

\* C12: for |eps| > eps_f and beta > 0 sigma returns the plateau stress
\* sign(eps) * (alpha*eps_f - beta*eps_f^2) * E, of the sign of the strain in
\* tension and in compression.
C12_PlateauHasSignOfStrain ==
    LET el == elements[1]
        eps == strain[1]
    IN  (pc = "sigma_done" /\ RGt(RAbs(eps), el.ele_eps_f) /\ RGt(el.ele_quad_coeff, Zero))
        => SigmaReturned =
             RMul(SignOf(eps),
                  RMul(RSub(RMul(el.ele_lin_coeff, el.ele_eps_f),
                            RMul(el.ele_quad_coeff, RMul(el.ele_eps_f, el.ele_eps_f))),
                       ele_e(elements)[1]))

\* a compressive strain beyond the yield strain of a softening bar
C12_Witness ==
    /\ pc = "sigma_done"
    /\ RLt(strain[1], RNeg(elements[1].ele_eps_f))
    /\ RGt(elements[1].ele_quad_coeff, Zero)

\* C13: for |eps| <= eps_f, and for every strain when beta = 0, sigma returns
\* (alpha*eps - sign(eps)*beta*eps^2) * E, with sign(0) = +1.
C13_QuadraticBranch ==
    LET el == elements[1]
        eps == strain[1]
    IN  (pc = "sigma_done"
         /\ (RLe(RAbs(eps), el.ele_eps_f) \/ REq(el.ele_quad_coeff, Zero)))
        => SigmaReturned =
             RMul(RSub(RMul(el.ele_lin_coeff, eps),
                       RMul(RMul(SignOf(eps), el.ele_quad_coeff), RMul(eps, eps))),
                  ele_e(elements)[1])

\* a compressive strain below the yield strain of a softening bar
C13_Witness ==
    /\ pc = "sigma_done"
    /\ RLt(strain[1], Zero) /\ RLe(RAbs(strain[1]), elements[1].ele_eps_f)
    /\ RGt(elements[1].ele_quad_coeff, Zero)
    /\ ~REq(SigmaReturned, Zero)

\* C14: after the node list and the elements' DOF lists are built, every end
\* node of every element has exactly one index in the node list (identical
\* coordinates: the same index; distinct coordinates: distinct indices), and
\* the DOF list of each element is (2i, 2i+1, 2j, 2j+1) for the indices i, j
\* of its two end nodes.
C14_NodesResolved ==
    pc = "assemble" =>
        /\ \A p, q \in 1..Len(nodes) : nodes[p] = nodes[q] => p = q
        /\ Len(element_matrices) = Invocations * Len(elements)
        /\ \A k \in 1..Len(elements) :
              \E i, j \in 0..(Len(nodes) - 1) :
                 LET em == element_matrices[(Invocations - 1) * Len(elements) + k]
                 IN  /\ nodes[i + 1] = elements[k].ele_node_i
                     /\ nodes[j + 1] = elements[k].ele_node_j
                     /\ em.DOFs[0] = 2 * i
                     /\ em.DOFs[1] = 2 * i + 1
                     /\ em.DOFs[2] = 2 * j
                     /\ em.DOFs[3] = 2 * j + 1

\* two elements share an end node and differ in the other
C14_Witness ==
    /\ pc = "assemble"
    /\ Len(elements) = 2 /\ Len(nodes) = 3
    /\ elements[1].ele_node_i = elements[2].ele_node_i
    /\ element_matrices[2].DOFs[0] = 0 /\ element_matrices[2].DOFs[2] = 4

\* C15: the system matrix that assembly_system_matrix returns is symmetric,
\* K[i, j] = K[j, i] for all i, j, whatever the elements and the supports.
C15_SystemMatrixSymmetric ==
    pc \in {"solve", "update"} =>
        \A i, j \in 0..(Dim(k_sys) - 1) : REq(k_sys[i][j], k_sys[j][i])

\* a matrix with off-diagonal stiffness was assembled under a spring support
C15_Witness ==
    /\ pc = "solve"
    /\ \E i, j \in 0..(Dim(k_sys) - 1) :
          /\ i # j /\ IsFinite(k_sys[i][j]) /\ ~REq(k_sys[i][j], Zero)
          /\ REq(k_sys[i][j], k_sys[j][i])
    /\ \E d \in 0..(Dim(k_sys) - 1) : RGt(spring_index[d], Zero)

\* the orders in which the records of a list can be presented
Orderings(seq) ==
    LET n == Len(seq)
    IN  {[i \in 1..n |-> seq[f[i]]] :
            f \in {g \in [1..n -> 1..n] : \A a, b \in 1..n : g[a] = g[b] => a = b}}

\* node list, element matrices, system matrix and load vector of a fresh
\* run on the given records, the elements numbered in the order given
AssembledFrom(els, sups, frc) ==
    LET numbered == WithIds(els)
        nds == NodeList(numbered, Len(numbered))
        ems == [k \in 1..Len(numbered) |-> ElementMatrix(numbered, nds, k)]
        ks == assembly_system_matrix(ems, sups, nds)
    IN  [k |-> ks.k, f_vec |-> LoadVector(ks.k, frc, nds)]

\* C16: the same element, support and load records presented in any other
\* order assemble to the identical system matrix and the identical load
\* vector.
C16_OrderIndependent ==
    pc = "solve" =>
        \A els \in Orderings(elements) : \A sups \in Orderings(supports) :
           \A frc \in Orderings(forces) :
              AssembledFrom(els, sups, frc) = [k |-> k_sys, f_vec |-> f_vec]

\* an assembly of records that have more than one order
C16_Witness ==
    /\ pc = "solve"
    /\ \/ Len(elements) = 2 /\ elements[1].ele_node_j # elements[2].ele_node_j
       \/ Len(supports) = 2 /\ supports[1] # supports[2]
       \/ Len(forces) = 2 /\ forces[1] # forces[2]

\* C17: a second call of return_solution on the same object with unchanged
\* input starts from fresh intermediate state and returns a Solution equal
\* to the one the first call returned: when the second call ends after the
\* first returned a Solution, it ends by returning, and the Solution it
\* returns is the one self.solution held since the first call.
C17_SecondCallReturnsSame ==
    [][(Invocations = 2 /\ solution # None /\ ~Terminated /\ Terminated')
         => (pc' = "done" /\ solution' = solution)]_vars

\* a second call has ended after the first returned a full Solution
C17_Witness ==
    /\ Invocations = 2 /\ Terminated
    /\ solution # None

\* the support list without its i-th record
RemoveAt(seq, i) ==
    [j \in 1..(Len(seq) - 1) |-> IF j < i THEN seq[j] ELSE seq[j + 1]]

\* the support list with axis ax (0: x, 1: y) of its i-th record set free
WithAxisFree(sups, i, ax) ==
    [sups EXCEPT ![i] = IF ax = 0 THEN [@ EXCEPT !.c_x = Zero]
                                   ELSE [@ EXCEPT !.c_y = Zero]]

AxisStiffness(sup, ax) == IF ax = 0 THEN sup.c_x ELSE sup.c_y

\* every support stands at a node of the truss, the i-th alone at its node
AloneAtNode(sups, nds, i) ==
    /\ \A j \in 1..Len(sups) : NodeToIndex(nds, sups[j].sup_node) # -1
    /\ \A j \in 1..Len(sups) : j # i => sups[j].sup_node # sups[i].sup_node

\* C18: for every support axis that is elastic with a stiffness k > 0 (1 is
\* the value that stands for rigid), the assembly adds exactly k to the
\* diagonal entry of the DOF and changes no other entry, and the stiffness
\* that the iteration multiplies with the current displacement at that DOF
\* (self.spring_index) is k.
C18_ElasticAddsStiffness ==
    pc = "solve" =>
        \A i \in 1..Len(supports) : \A ax \in {0, 1} :
           LET c == AxisStiffness(supports[i], ax)
               d == 2 * NodeToIndex(nodes, supports[i].sup_node) + ax
               base == assembly_system_matrix(element_matrices,
                                              WithAxisFree(supports, i, ax), nodes)
           IN  (AloneAtNode(supports, nodes, i) /\ RGt(c, Zero) /\ ~REq(c, One))
               => /\ k_sys = SpringDOF(base.k, d, c)
                  /\ spring_index[d] = c

\* an assembly with a support on a spring weaker than 1
C18_Witness ==
    /\ pc = "solve"
    /\ \E i \in 1..Len(supports) :
          /\ AloneAtNode(supports, nodes, i)
          /\ RGt(supports[i].c_x, Zero) /\ RLt(supports[i].c_x, One)

\* C19: a support axis with stiffness 0, at a node of the truss, is like no
\* support on that axis: outside the row and column of the record's other
\* axis the system matrix, the load vector and the spring stiffness are
\* those of the input without the record, at the first assembly and at
\* every assembly of the iteration.
C19_ZeroStiffnessIsFree ==
    pc \in {"solve", "update"} =>
        \A i \in 1..Len(supports) : \A ax \in {0, 1} :
           LET idx == NodeToIndex(nodes, supports[i].sup_node)
               d == 2 * idx + ax
               o == 2 * idx + (1 - ax)
               base == assembly_system_matrix(element_matrices,
                                              RemoveAt(supports, i), nodes)
               Kept(r) == r # o \/ REq(AxisStiffness(supports[i], 1 - ax), Zero)
           IN  (/\ AloneAtNode(supports, nodes, i)
                /\ REq(AxisStiffness(supports[i], ax), Zero))
               => /\ \A r, q \in DOMAIN k_sys :
                        (Kept(r) /\ Kept(q)) => k_sys[r][q] = base.k[r][q]
                  /\ spring_index[d] = base.spring[d]
                  /\ pc = "solve" =>
                        \A r \in DOMAIN f_vec :
                           Kept(r) => f_vec[r] = LoadVector(base.k, forces, nodes)[r]

\* a support with a free axis at a DOF that carries stiffness and load
C19_Witness ==
    /\ pc = "solve"
    /\ \E i \in 1..Len(supports) :
          LET d == 2 * NodeToIndex(nodes, supports[i].sup_node)
          IN  /\ AloneAtNode(supports, nodes, i)
              /\ REq(supports[i].c_x, Zero)
              /\ RGt(k_sys[d][d], Zero) /\ ~REq(f_vec[d], Zero)

\* a single softening bar under one axial load that it carries below its
\* yield strain, in the first call, solved with Newton-Raphson
BarBelowYield ==
    /\ Len(elements) = 1 /\ Len(forces) = 1 /\ Invocations = 1
    /\ calc_param.calc_method = STR_NR
    /\ RGt(elements[1].ele_quad_coeff, Zero)
    /\ Len(strain) = 1 /\ RLe(RAbs(strain[1]), elements[1].ele_eps_f)
    /\ RLe(RAbs(forces[1].f_x),
           RMul(sigma(elements[1].ele_eps_f, elements[1].ele_lin_coeff,
                      elements[1].ele_quad_coeff, ele_e(elements)[1],
                      elements[1].ele_eps_f),
                ele_area(elements)[1]))

\* the stop criterion was met: only then node_equilibrium_nonlinear is set
Converged == pc = "finalize" /\ node_equilibrium_nonlinear # None

\* C20: for a single softening bar under an axial load below yield, the
\* maximal mismatch of every Newton-Raphson iteration after the first is
\* strictly smaller than that of the iteration before, and when the
\* tolerance is met the call returns an axial force that balances the load
\* within the tolerance.
C20_MismatchDecreasesToRoot ==
    [][BarBelowYield =>
         /\ (pc = "iterate" /\ iter_number >= 2 /\ pc' \in {"update", "finalize"})
               => RLt(MaxAbs(f_vec_mismatch'[1]), MaxAbs(f_vec_mismatch[1]))
         /\ Converged
               => /\ pc' = "done"
                  /\ Len(solution'[1].axial_forces_nonlinear) = 1
                  /\ RLe(RAbs(RAdd(solution'[1].axial_forces_nonlinear[1],
                                   forces[1].f_x)),
                         calc_param.delta_f_max)]_vars

\* the iteration of a bar below yield met the tolerance
C20_Witness ==
    /\ BarBelowYield /\ Converged
    /\ RLe(MaxAbs(f_vec_mismatch[1]), calc_param.delta_f_max)

\* the method is one of the two nonlinear ones and some element has beta # 0
NonlinearRequested ==
    /\ calc_param.calc_method \in {STR_NR, STR_modNR}
    /\ \E k \in 1..Len(elements) : ~REq(elements[k].ele_quad_coeff, Zero)

\* C21: the iteration loop is entered if and only if the method is 'NR' or
\* 'modNR' and at least one element has beta # 0; otherwise no iteration is
\* executed and iteration_break_number stays 0.
C21_LoopEnteredIffNonlinear ==
    [][/\ pc = "branch" => (pc' = "iterate" <=> NonlinearRequested)
       /\ ~NonlinearRequested
             => /\ pc' \notin {"iterate", "update"}
                /\ iter_number' = 0 /\ iter_break_number' = 0]_vars

\* the loop was entered with one softening and one linear element
C21_Witness ==
    /\ pc = "iterate" /\ iter_number = 1
    /\ \E k \in 1..Len(elements) : REq(elements[k].ele_quad_coeff, Zero)
    /\ \E k \in 1..Len(elements) : RGt(elements[k].ele_quad_coeff, Zero)

\* the call is inside the iteration loop
InLoop == pc \in {"iterate", "update"}

\* C22: once entered, the iteration always ends as converged or with the
\* maximum of iterations reached, after at most number_of_iterations
\* iterations, and the iteration_break_number it reports is between 1 and
\* number_of_iterations: no step of the loop leaves the call otherwise.
C22_LoopReachesDone ==
    [][(InLoop /\ Invocations = 1)
         => /\ pc' \in {"iterate", "update", "finalize"}
            /\ iter_number' <= calc_param.number_of_iterations
            /\ pc' = "finalize"
                  => iter_break_number' \in 1..calc_param.number_of_iterations]_vars

\* the loop ended by reaching the maximum of iterations
C22_Witness ==
    /\ pc = "finalize" /\ Invocations = 1
    /\ iter_number = calc_param.number_of_iterations
    /\ iter_break_number = iter_number /\ node_equilibrium_nonlinear = None
    /\ axial_forces_cor # None

\* the element matrices of the linear stage, computed anew from the input
LinearElementMatrices ==
    [k \in 1..Len(elements) |-> ElementMatrix(elements, nodes, k)]

\* C23: under 'modNR' the element matrices and the system matrix are, in
\* every iteration, those of the linear assembly.
C23_ModifiedKeepsStiffness ==
    (InLoop /\ calc_param.calc_method = STR_modNR /\ Invocations = 1)
        => /\ element_matrices = LinearElementMatrices
           /\ k_sys = assembly_system_matrix(LinearElementMatrices, supports, nodes).k

\* a second incremental solve of 'modNR' is due, at a nonzero strain
C23_Witness ==
    /\ pc = "update" /\ iter_number >= 2 /\ Invocations = 1
    /\ calc_param.calc_method = STR_modNR
    /\ \E k \in 1..Len(strain) : ~REq(strain[k], Zero)

\* the matrices of the elements with K_global computed from the modulus
\* E * (alpha + 2 * beta * eps) at each element's strain
TangentElementMatrices ==
    [k \in 1..Len(elements) |->
        LET e == elements[k]
            modulus == RMul(ele_e(elements)[k],
                            RAdd(e.ele_lin_coeff,
                                 RMul(R(2, 1), RMul(e.ele_quad_coeff, strain[k]))))
        IN  [element_matrices[k] EXCEPT !.K_global =
                calculate_element_matrices(e.ele_node_i, e.ele_node_j,
                                           ele_area(elements)[k], modulus).K_global]]

\* C24: in every 'NR' iteration that goes on to the incremental solve, the
\* system matrix of that solve is assembled from the element stiffnesses of
\* the tangent modulus E * (alpha + 2 * beta * eps) at the current strains,
\* with the supports applied as in the linear assembly (the same spring
\* stiffnesses).
C24_TangentStiffnessAssembled ==
    [][(pc = "iterate" /\ pc' = "update" /\ calc_param.calc_method = STR_NR
        /\ Invocations = 1)
         => /\ element_matrices' = TangentElementMatrices
            /\ k_sys' = assembly_system_matrix(TangentElementMatrices, supports, nodes).k
            /\ spring_index' = spring_index]_vars

\* an 'NR' solve is due on a matrix that differs from the linear one
C24_Witness ==
    /\ pc = "update" /\ calc_param.calc_method = STR_NR /\ Invocations = 1
    /\ k_sys # assembly_system_matrix(LinearElementMatrices, supports, nodes).k
    /\ \E d \in DOMAIN spring_index : RGt(spring_index[d], Zero)

\* the slope of sigma at eps on its quadratic branch:
\* d/d eps of (lin_coeff * eps - sign(eps) * quad_coeff * eps^2) * e_mod
SigmaSlope(eps, lin_coeff, quad_coeff, e_mod) ==
    LET sign_eps == IF REq(eps, Zero) THEN One ELSE RSign(eps)
    IN  RMul(RSub(lin_coeff,
                  RMul(R(2, 1), RMul(RMul(sign_eps, quad_coeff), eps))), e_mod)

\* element k softens and its strain is nonzero and within the yield strain
StrainedBelowYield(k) ==
    /\ RGt(elements[k].ele_quad_coeff, Zero)
    /\ ~REq(strain[k], Zero)
    /\ RLe(RAbs(strain[k]), elements[k].ele_eps_f)

\* C25: when 'NR' has rebuilt the stiffness, the matrix of every element with
\* beta > 0 and a nonzero strain within the yield strain is the one of the
\* slope of sigma at that strain, a modulus below alpha * E in tension and
\* in compression alike.
C25_TangentIsSlopeOfSigma ==
    (pc = "update" /\ calc_param.calc_method = STR_NR /\ Invocations = 1)
        => \A k \in 1..Len(elements) :
              StrainedBelowYield(k)
                => LET e == elements[k]
                       slope == SigmaSlope(strain[k], e.ele_lin_coeff,
                                           e.ele_quad_coeff, ele_e(elements)[k])
                   IN  /\ RLt(slope, RMul(e.ele_lin_coeff, ele_e(elements)[k]))
                       /\ element_matrices[k].K_global =
                             calculate_element_matrices(
                                 e.ele_node_i, e.ele_node_j,
                                 ele_area(elements)[k], slope).K_global

\* 'NR' has rebuilt the stiffness of a softening element in tension
C25_Witness ==
    /\ pc = "update" /\ calc_param.calc_method = STR_NR /\ Invocations = 1
    /\ \E k \in 1..Len(elements) : StrainedBelowYield(k) /\ RGt(strain[k], Zero)

\* C26: in the linear solution and after every iteration, the displacement
\* at every DOF that a support tags Rigid is 0 (for the solutions that are
\* finite numbers).
C26_RigidDisplacementZero ==
    \A d \in RigidTagged(supports, nodes) :
        /\ (pc \in {"forces", "branch", "iterate", "update", "finalize"}
            /\ LinearSolved /\ Invocations = 1)
              => REq(displacements[d], Zero)
        /\ (pc \in {"iterate", "update", "finalize"}
            /\ displacements_cor_total # None /\ Invocations = 1)
              => (IsFinite(displacements_cor_total[1][d])
                    => REq(displacements_cor_total[1][d], Zero))

\* an iteration has updated the displacements of a structure with a Rigid
\* DOF and a nonzero displacement elsewhere
C26_Witness ==
    /\ pc = "finalize" /\ Invocations = 1 /\ displacements_cor_total # None
    /\ RigidTagged(supports, nodes) # {}
    /\ \E d \in DOMAIN displacements : ~REq(displacements_cor_total[1][d], Zero)

\* the mismatch of the node equilibrium at the current displacements: the
\* loads less the nonlinear internal forces at the current strains and the
\* spring reactions; CurrentMismatch is set to 0 where the diagonal of k_sys
\* is 1
RawMismatch ==
    LET n == Dim(f_vec)
        f_vec_cor == CorrectedForces(element_matrices,
                                     NonlinearAxialForces(elements, strain), n,
                                     Len(element_matrices))
        total == displacements_cor_total[1]
        spring_reactions_forces ==
            Array([d \in 0..(n - 1) |-> RMul(spring_index[d], total[d])])
    IN  VecSub(VecSub(f_vec, f_vec_cor), spring_reactions_forces)

CurrentMismatch == ZeroAtUnitDiagonal(RawMismatch, k_sys)

\* the loop has ended, by convergence or at the last iteration, and the
\* results are about to be reported
LoopEnded ==
    /\ pc = "finalize" /\ iter_break_number >= 1 /\ Invocations = 1
    /\ FinalizeError = "none"

\* C27: when the loop has ended, by convergence or at the last iteration, the
\* mismatch that is reported (rounded to 2 decimals) is the mismatch at the
\* displacements that are reported, so a run that ends at the last iteration
\* without convergence reports displacements whose mismatch exceeds the
\* tolerance.
C27_MismatchOfReportedDisplacement ==
    LoopEnded
        => /\ \A d \in DOMAIN f_vec :
                  Round2(f_vec_mismatch[1][d]) = Round2(CurrentMismatch[d])
           /\ ~Converged => RGt(MaxAbs(CurrentMismatch), calc_param.delta_f_max)

\* the loop ended at the last iteration without convergence
C27_Witness ==
    /\ LoopEnded /\ ~Converged
    /\ iter_break_number = calc_param.number_of_iterations
    /\ \E d \in DOMAIN f_vec : ~REq(f_vec_mismatch[1][d], Zero)

\* the loads of the list summed per DOF, before any entry is set to 0
AppliedLoads == AddForces(ZeroVec(Dim(k_sys)), forces, nodes, 1)

\* C28: the entries of the load vector and of the mismatch vector are set to
\* 0 at the DOFs that a support tags Rigid and at no other DOF: the load at a
\* free or elastic DOF is kept whatever its diagonal entry, and a Rigid DOF
\* stays one when another support of its node adds a spring stiffness.
C28_ZeroedOnlyAtRigid ==
    /\ (pc = "solve" /\ Invocations = 1)
          => \A d \in DOMAIN f_vec :
                f_vec[d] = IF d \in RigidTagged(supports, nodes) THEN Zero
                           ELSE AppliedLoads[d]
    /\ (pc = "update" /\ Invocations = 1)
          => \A d \in DOMAIN f_vec :
                f_vec_mismatch[1][d] = IF d \in RigidTagged(supports, nodes) THEN Zero
                                       ELSE RawMismatch[d]

\* a mismatch vector is built for a structure that has a Rigid DOF and a
\* loaded DOF that is free or elastic
C28_Witness ==
    /\ pc = "update" /\ Invocations = 1
    /\ RigidTagged(supports, nodes) # {}
    /\ \E d \in DOMAIN f_vec \ RigidTagged(supports, nodes) : ~REq(AppliedLoads[d], Zero)

\* the matrices of element k computed from the area, the modulus and the end
\* nodes of its own record
OwnElementMatrices(k) ==
    calculate_element_matrices(elements[k].ele_node_i, elements[k].ele_node_j,
                               ele_area(elements)[k], ele_e(elements)[k])

\* the element loop of the first call is over
ElementsProcessed ==
    /\ pc # "start" /\ elements # <<>>
    /\ Len(element_matrices) <= Len(elements)

\* C29: whatever the id keys of the element mapping, once the element loop of
\* start_calc is over every element has a stiffness matrix computed from its
\* own area and modulus, and the matrices that 'NR' rebuilds are those of
\* each element's own end nodes.
C29_OwnElementData ==
    ElementsProcessed
        => /\ Len(element_matrices) = Len(elements)
           /\ \A k \in 1..Len(elements) :
                 /\ element_matrices[k].K_local = OwnElementMatrices(k).K_local
                 /\ element_matrices[k].length = OwnElementMatrices(k).length
           /\ (pc = "update" /\ calc_param.calc_method = STR_NR)
                 => element_matrices = TangentElementMatrices

\* the element loop has run on a mapping whose keys are not 0, 1, ...
C29_Witness ==
    /\ ElementsProcessed
    /\ \E k \in 1..Len(elements) : elements[k].id # k - 1

\* C30: no step of return_solution changes the records the caller passed in
\* (elements, supports, forces, calc_param), for any method and any
\* number_of_iterations, those below 1 included.
C30_InputsUnchanged ==
    [][/\ elements' = elements /\ supports' = supports /\ forces' = forces
       /\ calc_param' = calc_param]_vars

\* a nonlinear run has gone through the loop and returned its solution
C30_Witness ==
    /\ pc = "done" /\ solution # None /\ iter_break_number >= 1
    /\ calc_param.calc_method \in {STR_NR, STR_modNR}

=============================================================================
